---- MODULE Spec2Model ----
(***************************************************************************)
(* The collection engine of elastic-shard-exporter                         *)
(* (src/collector/collector.go): ShardCollector.Collect, the two upstream  *)
(* fetches it drives, and the replica derivation.                          *)
(*                                                                         *)
(* A Go string is modelled as a sequence of one-character strings, so that *)
(* fmt.Sscanf("%d") and fmt.Sprintf("%d") are computed character by        *)
(* character.                                                              *)
(***************************************************************************)
EXTENDS Integers, Sequences, FiniteSets, TLC

\* ------------------------------------------------------------------ bounds
\* Number of Collect invocations the hosting protocol makes.
NumCalls == 2
\* Largest relocating_shards value the upstream reports.
MaxRelocating == 2
\* Most indices in a settings map of the exhaustive settings bodies.
MaxIndices == 2

\* net/http's StatusOK, the only status a fetch accepts.
StatusOK == 200

Procs == 1 .. NumCalls

\* ------------------------------------------------------------------ strings
Digits == <<"0", "1", "2", "3", "4", "5", "6", "7", "8", "9">>

DigitChars == {Digits[i] : i \in 1 .. 10}

DigitVal(ch) == (CHOOSE i \in 1 .. 10 : Digits[i] = ch) - 1

\* The number_of_replicas strings of the exhaustive settings bodies: "", "0",
\* "2", "10", "-1", "-3", "abc", "3x", "x3", " 4", "+5", "1_0", "-".
ReplicaStrings ==
    {<<>>, <<"0">>, <<"2">>, <<"1", "0">>, <<"-", "1">>, <<"-", "3">>,
     <<"a", "b", "c">>, <<"3", "x">>, <<"x", "3">>, <<" ", "4">>, <<"+", "5">>,
     <<"1", "_", "0">>, <<"-">>}

\* fmt's ss.SkipSpace: leading blanks are dropped before a number is scanned.
RECURSIVE SkipSpace(_)
SkipSpace(s) ==
    IF s # <<>> /\ Head(s) \in {" ", "\t"} THEN SkipSpace(Tail(s)) ELSE s

\* Length of the longest prefix of s made of characters of set.
RECURSIVE Span(_, _)
Span(s, set) ==
    IF s # <<>> /\ Head(s) \in set THEN 1 + Span(Tail(s), set) ELSE 0

\* strconv.ParseInt(tok, 10, 64) on a token of decimal digits.
RECURSIVE ParseDigits(_, _)
ParseDigits(tok, acc) ==
    IF tok = <<>> THEN acc
    ELSE ParseDigits(Tail(tok), acc * 10 + DigitVal(Head(tok)))

\* A faulty variant of Sscanf: the whole string has to be the integer, as
\* strconv.Atoi demands.
SscanfWholeString(s) ==
    LET t    == SkipSpace(s)
        sl   == IF t # <<>> /\ Head(t) \in {"+", "-"} THEN 1 ELSE 0
        rest == SubSeq(t, sl + 1, Len(t))
        n    == Span(rest, DigitChars)
        neg  == sl = 1 /\ Head(t) = "-"
    IN  IF n = 0 \/ n < Len(rest)
        THEN [ok |-> FALSE, val |-> 0]
        ELSE [ok |-> TRUE,
              val |-> IF neg THEN 0 - ParseDigits(rest, 0) ELSE ParseDigits(rest, 0)]

\* fmt.Sscanf(s, "%d", &replicas): blanks are skipped, one optional sign is
\* accepted, then the longest run of decimal digits is the token; the rest of
\* s is left unread.  No digit is an error, and nothing is stored.
\* (Tokens stay far below 2^63 within the bounds: no overflow error.)
Sscanf(s) ==
    LET t    == SkipSpace(s)
        sl   == IF t # <<>> /\ Head(t) \in {"+", "-"} THEN 1 ELSE 0
        rest == SubSeq(t, sl + 1, Len(t))
        n    == Span(rest, DigitChars)
        tok  == SubSeq(rest, 1, n)
        neg  == sl = 1 /\ Head(t) = "-"
    IN  IF n = 0
        THEN [ok |-> FALSE, val |-> 0]
        ELSE [ok |-> TRUE,
              val |-> IF neg THEN 0 - ParseDigits(tok, 0) ELSE ParseDigits(tok, 0)]

\* "var replicas int; fmt.Sscanf(..., &replicas)" with the error ignored: the
\* zero value stays when the scan fails.
ScanReplicas(s) == IF Sscanf(s).ok THEN Sscanf(s).val ELSE 0

\* A faulty variant of Exceeds: the comparison turned round.
ExceedsReversed(replicas, maxReplicas) == replicas < maxReplicas

\* The comparison of the running maximum, "replicas > maxReplicas".
Exceeds(replicas, maxReplicas) == replicas > maxReplicas

\* The loop of fetchMaxReplicaCount over the entries of the settings map, in
\* the order the map iteration yields them.
RECURSIVE MaxReplicaLoop(_, _)
MaxReplicaLoop(entries, maxReplicas) ==
    IF entries = <<>> THEN maxReplicas
    ELSE LET replicas == ScanReplicas(Head(entries))
         IN  MaxReplicaLoop(Tail(entries),
                            IF Exceeds(replicas, maxReplicas) THEN replicas
                            ELSE maxReplicas)

\* A faulty variant of MaxReplicas: the running maximum starts at the first
\* entry.
MaxReplicasFromFirst(entries) ==
    IF entries = <<>> THEN 0
    ELSE MaxReplicaLoop(Tail(entries), ScanReplicas(Head(entries)))

\* "maxReplicas := 0" and the loop.
MaxReplicas(entries) == MaxReplicaLoop(entries, 0)

\* fmt.Sprintf("%d", n).
RECURSIVE FmtNat(_)
FmtNat(n) ==
    IF n < 10 THEN <<Digits[n + 1]>>
    ELSE Append(FmtNat(n \div 10), Digits[(n % 10) + 1])

Sprintf(n) == IF n < 0 THEN <<"-">> \o FmtNat(0 - n) ELSE FmtNat(n)

\* ------------------------------------------------------------ configuration
\* The URLs the exporter is started with: main's validateConfig accepts any
\* non-empty --es-url.  http.NewRequest fails on a URL that does not parse.
GoodURL == "http://es:9200"

BadURL == ":"

NewRequestFails(url) == url = BadURL

\* CollectorConfig as main.go hands it to NewShardCollector.
MakeConfig(url, user, pass) == [ESURL |-> url, ESUser |-> user, ESPass |-> pass]

\* A faulty variant of BasicAuth: the credentials are set whenever a user is
\* configured.
BasicAuthIfUser(cfg) ==
    IF cfg.ESUser # "" THEN <<cfg.ESUser, cfg.ESPass>> ELSE <<>>

\* The credentials of a request: req.SetBasicAuth is called only when both
\* the user and the password are set.
BasicAuth(cfg) ==
    IF cfg.ESUser # "" /\ cfg.ESPass # "" THEN <<cfg.ESUser, cfg.ESPass>> ELSE <<>>

namespace == "trendyol_nosql"

\* prometheus.BuildFQName.
BuildFQName(ns, subsystem, name) == ns \o "_" \o subsystem \o "_" \o name

\* prometheus.NewDesc(fqName, help, variableLabels, nil).
NewDesc(fqName, help, variableLabels) ==
    [fqName |-> fqName, help |-> help, variableLabels |-> variableLabels]

\* The four descriptors NewShardCollector builds.
NewDescs ==
    [shardRelocationMetric |->
         NewDesc("trendyol_nosql_shard_relocation",
                 "Elasticsearch shard relocation status", <<"status">>),
     shardReplicaMetric |->
         NewDesc("trendyol_nosql_shard_replica",
                 "Elasticsearch shard replica count", <<"count">>),
     scrapeErrorMetric |->
         NewDesc(BuildFQName(namespace, "exporter", "scrape_error"),
                 "Scrape error status", <<>>),
     scrapeDurationMetric |->
         NewDesc(BuildFQName(namespace, "exporter", "scrape_duration_seconds"),
                 "Duration of the scrape in seconds", <<>>)]

\* ---------------------------------------------------------------- upstream
\* What c.client.Do yields: a transport failure, or a response with a status
\* and a body.  json says whether the body decodes into the expected type;
\* what it decodes to is relocatingShards for the health endpoint and doc,
\* the number_of_replicas strings of the indices, for the settings endpoint.
Response(failed, status, json, doc) ==
    [failed |-> failed, status |-> status, json |-> json,
     relocatingShards |-> 0, doc |-> doc]

HealthResponse(failed, status, json, relocatingShards) ==
    [failed |-> failed, status |-> status, json |-> json,
     relocatingShards |-> relocatingShards, doc |-> <<>>]

Statuses == {StatusOK, 500}

HealthOf(shards) ==
    {HealthResponse(TRUE, 0, FALSE, 0)}
        \cup {HealthResponse(FALSE, st, FALSE, 0) : st \in Statuses}
        \cup {HealthResponse(FALSE, st, TRUE, n) : st \in Statuses, n \in shards}

\* The relocating_shards values the upstream reports.
AllShards == 0 .. MaxRelocating

SettingsOf(docs) ==
    {Response(TRUE, 0, FALSE, <<>>)}
        \cup {Response(FALSE, st, FALSE, <<>>) : st \in Statuses}
        \cup {Response(FALSE, st, TRUE, d) : st \in Statuses, d \in docs}

\* The settings maps of the specification's scenarios: no index; replicas
\* "1", "3", "2"; "abc" beside "2".
ScenarioDocs ==
    {<<>>,
     <<<<"1">>, <<"3">>, <<"2">>>>,
     <<<<"a", "b", "c">>, <<"2">>>>}

\* Every settings map of at most MaxIndices indices over ReplicaStrings.
AllDocs == UNION {[1 .. k -> ReplicaStrings] : k \in 0 .. MaxIndices}

\* A faulty variant of FetchErr: the body is decoded whatever the status.
FetchErrIgnoresStatus(r) ==
    IF r.failed THEN "transport"
    ELSE IF ~r.json THEN "decode"
    ELSE ""

\* The error a fetch returns for an outcome of client.Do ("" is nil): the
\* transport error, then the status check, then the decoding.
FetchErr(r) ==
    IF r.failed THEN "transport"
    ELSE IF r.status # StatusOK THEN "status"
    ELSE IF ~r.json THEN "decode"
    ELSE ""

\* ------------------------------------------------------------------- state
VARIABLES
    config,       \* c.config
    descs,        \* the four *prometheus.Desc fields of the collector
    mutex,        \* c.mutex: 0 when free, else the invocation holding it
    pc,           \* where each Collect invocation stands
    chan,         \* the channel of each running invocation: open, closed,
                  \* stalled (none when the invocation does not run)
    scrapeError,  \* Collect's local scrapeError
    health,       \* Collect's local health: <<>> is nil, <<n>> a response
    replicas,     \* Collect's local replicas
    err,          \* Collect's local err ("" is nil)
    resp,         \* the outcome of the invocation's latest client.Do
    trace,        \* everything the invocations did, in order
    dpc,          \* where the Describe invocation stands: idle, run, done
    dout          \* the descriptors the Describe invocation has sent

vars == <<config, descs, mutex, pc, chan, scrapeError, health, replicas, err,
          resp, trace, dpc, dout>>

describe == <<dpc, dout>>

locals == <<scrapeError, health, replicas, err, resp>>

Event(p, kind, what, arg) == [cycle |-> p, kind |-> kind, what |-> what, arg |-> arg]

\* prometheus.MustNewConstMetric(desc, GaugeValue, value, labelValues...) sent
\* on ch.
Sample(p, desc, value, labelValues) ==
    Event(p, "emit", desc.fqName, <<value, labelValues>>)

\* MustNewConstMetric panics when the label values do not fit the
\* descriptor; a send on a closed channel panics.
SendPanics(p, desc, labelValues) ==
    \/ Len(labelValues) # Len(desc.variableLabels)
    \/ chan[p] = "closed"

\* A send on an unbuffered channel blocks while nobody receives.
SendBlocks(p) == chan[p] = "stalled"

InitWith(cfgs) ==
    /\ config \in cfgs
    /\ descs = NewDescs
    /\ mutex = 0
    /\ pc = [p \in Procs |-> "idle"]
    /\ chan = [p \in Procs |-> "none"]
    /\ scrapeError = [p \in Procs |-> 0]
    /\ health = [p \in Procs |-> <<>>]
    /\ replicas = [p \in Procs |-> 0]
    /\ err = [p \in Procs |-> ""]
    /\ resp = [p \in Procs |-> <<>>]
    /\ trace = <<>>
    /\ dpc = "idle"
    /\ dout = <<>>

Init == InitWith({MakeConfig(u, "", "") : u \in {GoodURL, BadURL}})

\* ----------------------------------------------------------------- Collect
Log(e) == trace' = Append(trace, e)

\* The hosting protocol invokes Collect(ch) with a channel it receives from;
\* the invocation reaches c.mutex.Lock().
Call(p) ==
    /\ pc[p] = "idle"
    /\ pc' = [pc EXCEPT ![p] = "lock"]
    /\ chan' = [chan EXCEPT ![p] = "open"]
    /\ UNCHANGED <<describe, config, descs, mutex, locals, trace>>

\* A faulty variant of CanLock: the lock is never waited for.
CanLockAlways == TRUE

\* sync.RWMutex.Lock returns only when nobody holds the mutex.
CanLock == mutex = 0

\* A faulty variant of Lock: the error flag is kept from one cycle to the
\* next, so a cycle starts with 1 once any earlier cycle has reported 1.
LockKeepsScrapeError(p) ==
    /\ pc[p] = "lock"
    /\ CanLock
    /\ mutex' = p
    /\ scrapeError' = [scrapeError EXCEPT ![p] =
           IF \E i \in DOMAIN trace :
                  /\ trace[i].kind = "emit"
                  /\ trace[i].what = descs.scrapeErrorMetric.fqName
                  /\ trace[i].arg[1] = 1
           THEN 1 ELSE 0]
    /\ pc' = [pc EXCEPT ![p] = "fetchHealth"]
    /\ Log(Event(p, "lock", "mutex", <<>>))
    /\ UNCHANGED <<describe, config, descs, chan, health, replicas, err, resp>>

\* A faulty variant of Lock: an invocation that finds the mutex held skips its cycle.
TryLockOrSkip(p) ==
    /\ pc[p] = "lock"
    /\ IF mutex = 0
       THEN /\ mutex' = p
            /\ pc' = [pc EXCEPT ![p] = "fetchHealth"]
            /\ Log(Event(p, "lock", "mutex", <<>>))
            /\ chan' = chan
       ELSE /\ pc' = [pc EXCEPT ![p] = "done"]
            /\ chan' = [chan EXCEPT ![p] = "none"]
            /\ UNCHANGED <<mutex, trace>>
    /\ scrapeError' = [scrapeError EXCEPT ![p] = 0]
    /\ UNCHANGED <<describe, config, descs, health, replicas, err, resp>>

\* c.mutex.Lock(); defer c.mutex.Unlock(); start := time.Now();
\* scrapeError := 0.0
Lock(p) ==
    /\ pc[p] = "lock"
    /\ CanLock
    /\ mutex' = p
    /\ scrapeError' = [scrapeError EXCEPT ![p] = 0]
    /\ pc' = [pc EXCEPT ![p] = "fetchHealth"]
    /\ Log(Event(p, "lock", "mutex", <<>>))
    /\ UNCHANGED <<describe, config, descs, chan, health, replicas, err, resp>>

\* What the trace records of a fetch's return.
Outcome(e) == IF e = "" THEN "ok" ELSE "failed"

\* The head of a fetch, up to c.client.Do(req): the request is built (a
\* failure returns at once, nothing is sent), the credentials and the Accept
\* header are set, the request is sent.
StartFetch(p, endpoint, path, sentPc, retPc) ==
    IF NewRequestFails(config.ESURL)
    THEN /\ err' = [err EXCEPT ![p] = "request"]
         /\ pc' = [pc EXCEPT ![p] = retPc]
         /\ trace' = trace \o <<Event(p, "call", endpoint, <<>>),
                                Event(p, "ret", endpoint, <<Outcome("request")>>)>>
    ELSE /\ err' = err
         /\ pc' = [pc EXCEPT ![p] = sentPc]
         /\ trace' = trace \o <<Event(p, "call", endpoint, <<>>),
                                Event(p, "req", path, <<BasicAuth(config)>>)>>

\* health, err := c.fetchClusterHealth(), to the sending of the request.
CallHealth(p) ==
    /\ pc[p] = "fetchHealth"
    /\ StartFetch(p, "health", "/_cluster/health", "healthWait", "healthRet")
    /\ health' = [health EXCEPT ![p] = <<>>]
    /\ UNCHANGED <<describe, config, descs, mutex, chan, scrapeError, replicas, resp>>

\* client.Do returns r; fetchClusterHealth checks it and returns.
RecvHealth(p, r) ==
    /\ pc[p] = "healthWait"
    /\ pc' = [pc EXCEPT ![p] = "healthRet"]
    /\ resp' = [resp EXCEPT ![p] = <<r>>]
    /\ err' = [err EXCEPT ![p] = FetchErr(r)]
    /\ health' = [health EXCEPT ![p] = IF FetchErr(r) = "" THEN <<r.relocatingShards>> ELSE <<>>]
    /\ Log(Event(p, "ret", "health", <<Outcome(FetchErr(r))>>))
    /\ UNCHANGED <<describe, config, descs, mutex, chan, scrapeError, replicas>>

\* A faulty variant of RelocationStatus: the threshold off by one.
RelocationStatusAboveOne(relocatingShards) ==
    IF relocatingShards > 1 THEN "active" ELSE "inactive"

\* relocationStatus := "inactive"; if health.RelocatingShards > 0 { "active" }
RelocationStatus(relocatingShards) ==
    IF relocatingShards > 0 THEN "active" ELSE "inactive"

\* A faulty variant of ScrapeErrorAfter: a successful fetch clears the flag.
ScrapeErrorOfLastFetch(old, e) == IF e # "" THEN 1 ELSE 0

\* What the branch on a fetch's err does to scrapeError.
ScrapeErrorAfter(old, e) == IF e # "" THEN 1 ELSE old

\* A faulty variant of Emits: the sample is sent whatever the fetch returned.
EmitsAlways(e) == TRUE

\* Whether the branch on a fetch's err sends the fetch's sample.
Emits(e) == e = ""

\* A faulty variant of Handle: Collect returns on the first error.
HandleReturnsOnError(p, desc, labelValues, nextPc) ==
    /\ scrapeError' = [scrapeError EXCEPT ![p] = ScrapeErrorAfter(@, err[p])]
    /\ IF ~Emits(err[p])
       THEN /\ pc' = [pc EXCEPT ![p] = "return"]
            /\ trace' = trace
       ELSE /\ ~SendBlocks(p)
            /\ IF SendPanics(p, desc, labelValues)
               THEN /\ pc' = [pc EXCEPT ![p] = "panic"]
                    /\ trace' = trace
               ELSE /\ pc' = [pc EXCEPT ![p] = nextPc]
                    /\ Log(Sample(p, desc, 1, labelValues))

\* A faulty variant of Handle: on an error Collect starts its fetches over.
HandleRetries(p, desc, labelValues, nextPc) ==
    /\ scrapeError' = [scrapeError EXCEPT ![p] = ScrapeErrorAfter(@, err[p])]
    /\ IF ~Emits(err[p])
       THEN /\ pc' = [pc EXCEPT ![p] = "fetchHealth"]
            /\ trace' = trace
       ELSE /\ ~SendBlocks(p)
            /\ IF SendPanics(p, desc, labelValues)
               THEN /\ pc' = [pc EXCEPT ![p] = "panic"]
                    /\ trace' = trace
               ELSE /\ pc' = [pc EXCEPT ![p] = nextPc]
                    /\ Log(Sample(p, desc, 1, labelValues))

\* The branch of Collect on a fetch's result: on an error scrapeError is
\* set and nothing is sent; else the sample is sent on ch (which blocks while
\* nobody receives and panics on a closed channel).
Handle(p, desc, labelValues, nextPc) ==
    /\ scrapeError' = [scrapeError EXCEPT ![p] = ScrapeErrorAfter(@, err[p])]
    /\ IF ~Emits(err[p])
       THEN /\ pc' = [pc EXCEPT ![p] = nextPc]
            /\ trace' = trace
       ELSE /\ ~SendBlocks(p)
            /\ IF SendPanics(p, desc, labelValues)
               THEN /\ pc' = [pc EXCEPT ![p] = "panic"]
                    /\ trace' = trace
               ELSE /\ pc' = [pc EXCEPT ![p] = nextPc]
                    /\ Log(Sample(p, desc, 1, labelValues))

\* if err != nil { ... scrapeError = 1.0 } else { ch <- relocation sample }
HandleHealth(p) ==
    /\ pc[p] = "healthRet"
    /\ Handle(p, descs.shardRelocationMetric,
              IF health[p] = <<>> THEN <<>>
              ELSE <<RelocationStatus(health[p][1])>>,
              "fetchSettings")
    /\ UNCHANGED <<describe, config, descs, mutex, chan, health, replicas, err, resp>>

\* replicas, err := c.fetchMaxReplicaCount(), to the sending of the request.
CallSettings(p) ==
    /\ pc[p] = "fetchSettings"
    /\ StartFetch(p, "settings", "/_settings", "settingsWait", "settingsRet")
    /\ replicas' = [replicas EXCEPT ![p] = 0]
    /\ UNCHANGED <<describe, config, descs, mutex, chan, scrapeError, health, resp>>

\* A faulty variant of MaxReplicaErr: a failed scan of an entry makes the
\* fetch fail.
MaxReplicaErrOnBadEntry(r) ==
    IF FetchErr(r) # "" THEN FetchErr(r)
    ELSE IF \E i \in DOMAIN r.doc : ~Sscanf(r.doc[i]).ok THEN "parse"
    ELSE ""

\* The error fetchMaxReplicaCount returns for an outcome of client.Do: the
\* fetch's own; the error of an entry's Sscanf is dropped.
MaxReplicaErr(r) == FetchErr(r)

\* client.Do returns r; fetchMaxReplicaCount checks it, scans the settings
\* and returns.
RecvSettings(p, r) ==
    /\ pc[p] = "settingsWait"
    /\ pc' = [pc EXCEPT ![p] = "settingsRet"]
    /\ resp' = [resp EXCEPT ![p] = <<r>>]
    /\ err' = [err EXCEPT ![p] = MaxReplicaErr(r)]
    /\ replicas' = [replicas EXCEPT ![p] =
                        IF MaxReplicaErr(r) = "" THEN MaxReplicas(r.doc) ELSE 0]
    /\ Log(Event(p, "ret", "settings", <<Outcome(MaxReplicaErr(r))>>))
    /\ UNCHANGED <<describe, config, descs, mutex, chan, scrapeError, health>>

\* A faulty variant of HandleSettings: the replica descriptor is built anew
\* by every scrape, with the count as a constant label.
HandleSettingsRebuildsDesc(p) ==
    /\ pc[p] = "settingsRet"
    /\ Handle(p, descs.shardReplicaMetric, <<Sprintf(replicas[p])>>, "emitError")
    /\ descs' = [descs EXCEPT !.shardReplicaMetric =
                     NewDesc(@.fqName, @.help, <<>>)]
    /\ UNCHANGED <<describe, config, mutex, chan, health, replicas, err, resp>>

\* if err != nil { ... scrapeError = 1.0 } else { ch <- replica sample }
HandleSettings(p) ==
    /\ pc[p] = "settingsRet"
    /\ Handle(p, descs.shardReplicaMetric, <<Sprintf(replicas[p])>>, "emitError")
    /\ UNCHANGED <<describe, config, descs, mutex, chan, health, replicas, err, resp>>

\* An unconditional send of Collect.
Send(p, desc, value, nextPc) ==
    /\ ~SendBlocks(p)
    /\ IF SendPanics(p, desc, <<>>)
       THEN /\ pc' = [pc EXCEPT ![p] = "panic"]
            /\ trace' = trace
       ELSE /\ pc' = [pc EXCEPT ![p] = nextPc]
            /\ Log(Sample(p, desc, value, <<>>))

\* ch <- scrape-error sample
SendError(p) ==
    /\ pc[p] = "emitError"
    /\ Send(p, descs.scrapeErrorMetric, scrapeError[p], "emitDuration")
    /\ UNCHANGED <<describe, config, descs, mutex, chan, locals>>

\* ch <- scrape-duration sample; its value, time.Since(start).Seconds(), is
\* kept symbolic.
SendDuration(p) ==
    /\ pc[p] = "emitDuration"
    /\ Send(p, descs.scrapeDurationMetric, "elapsed", "return")
    /\ UNCHANGED <<describe, config, descs, mutex, chan, locals>>

\* A faulty variant of UnlockRunsOn: the unlock is forgotten.
UnlockNever(exit) == FALSE

\* A faulty variant of UnlockRunsOn: the unlock is a last statement, not deferred.
UnlockOnReturnOnly(exit) == exit = "return"

\* The exits of Collect on which c.mutex.Unlock() runs: it is deferred, so on
\* the return and on a panic.
UnlockRunsOn(exit) == exit \in {"return", "panic"}

\* Collect ends: the deferred call runs and the frame, with its locals and
\* its parameter ch, is gone.
Exit(p) ==
    /\ pc[p] \in {"return", "panic"}
    /\ IF UnlockRunsOn(pc[p])
       THEN /\ mutex' = 0
            /\ Log(Event(p, "unlock", "mutex", <<pc[p]>>))
       ELSE UNCHANGED <<mutex, trace>>
    /\ pc' = [pc EXCEPT ![p] = IF pc[p] = "return" THEN "done" ELSE "panicked"]
    /\ scrapeError' = [scrapeError EXCEPT ![p] = 0]
    /\ health' = [health EXCEPT ![p] = <<>>]
    /\ replicas' = [replicas EXCEPT ![p] = 0]
    /\ err' = [err EXCEPT ![p] = ""]
    /\ resp' = [resp EXCEPT ![p] = <<>>]
    /\ chan' = [chan EXCEPT ![p] = "none"]
    /\ UNCHANGED <<describe, config, descs>>

\* The caller closes the channel it handed to an invocation, while the
\* invocation runs its cycle (closing it earlier shows no earlier: the first
\* send is the first to see it).
CloseChan(p) ==
    /\ chan[p] = "open"
    /\ pc[p] \notin {"idle", "lock", "done", "panicked"}
    /\ chan' = [chan EXCEPT ![p] = "closed"]
    /\ UNCHANGED <<describe, config, descs, mutex, pc, locals, trace>>

\* The consumer of the channel handed to an invocation stops receiving while
\* the invocation runs its cycle and has a sample still to send.
Stall(p) ==
    /\ chan[p] = "open"
    /\ pc[p] \notin {"idle", "lock", "return", "panic", "done", "panicked"}
    /\ chan' = [chan EXCEPT ![p] = "stalled"]
    /\ UNCHANGED <<describe, config, descs, mutex, pc, locals, trace>>

\* ---------------------------------------------------------------- Describe
collect == <<mutex, pc, chan, locals, trace>>

\* A faulty variant of DescribeCall: Describe takes the collector's lock.
DescribeCallLocked ==
    /\ dpc \in {"idle", "done"}
    /\ mutex = 0
    /\ dpc' = "run"
    /\ dout' = <<>>
    /\ UNCHANGED <<config, descs, collect>>

\* The hosting protocol invokes Describe(ch), before, between or during
\* scrapes, any number of times.
DescribeCall ==
    /\ dpc \in {"idle", "done"}
    /\ dpc' = "run"
    /\ dout' = <<>>
    /\ UNCHANGED <<config, descs, collect>>

\* The descriptors in the order Describe sends them.
DescribeOrder ==
    <<descs.shardRelocationMetric, descs.shardReplicaMetric,
      descs.scrapeErrorMetric, descs.scrapeDurationMetric>>

\* ch <- the next of the four descriptors.
DescribeSend ==
    /\ dpc = "run"
    /\ Len(dout) < Len(DescribeOrder)
    /\ dout' = Append(dout, DescribeOrder[Len(dout) + 1])
    /\ UNCHANGED <<dpc, config, descs, collect>>

\* Describe returns after its last send.
DescribeReturn ==
    /\ dpc = "run"
    /\ Len(dout) = Len(DescribeOrder)
    /\ dpc' = "done"
    /\ UNCHANGED <<dout, config, descs, collect>>

\* One step of invocation p against an upstream that reports one of shards
\* as relocating_shards and one of docs as the settings.
Step(p, shards, docs) ==
    \/ Call(p)
    \/ Lock(p)
    \/ CallHealth(p)
    \/ \E r \in HealthOf(shards) : RecvHealth(p, r)
    \/ HandleHealth(p)
    \/ CallSettings(p)
    \/ \E r \in SettingsOf(docs) : RecvSettings(p, r)
    \/ HandleSettings(p)
    \/ SendError(p)
    \/ SendDuration(p)
    \/ Exit(p)

\* NumCalls concurrent invocations against the scenarios' upstream; every
\* channel is received from until its invocation returns.
Next == \E p \in Procs : Step(p, AllShards, ScenarioDocs)

Spec == Init /\ [][Next]_vars

\* NumCalls concurrent invocations whose callers may close the channel under
\* them, against an upstream with no index and no relocating shard.
NextPanic == \E p \in Procs : Step(p, {0}, {<<>>}) \/ CloseChan(p)

SpecPanic == Init /\ [][NextPanic]_vars

\* NumCalls concurrent invocations of Collect and the invocations of
\* Describe, against an upstream with no index and no relocating shard.
NextDescribe ==
    \/ \E p \in Procs : Step(p, {0}, {<<>>})
    \/ DescribeCall
    \/ DescribeSend
    \/ DescribeReturn

SpecDescribe == Init /\ [][NextDescribe]_vars

\* NumCalls concurrent invocations whose consumers may stop receiving.  Every
\* invocation that can take a step takes one in the end: a runnable goroutine
\* is scheduled, a waiter for the mutex is served once the mutex stays free,
\* and client.Do returns within the client's Timeout.  (Every step of an
\* invocation moves its pc.)
NextStall ==
    \/ \E p \in Procs : Step(p, {0}, {<<>>})
    \/ \E p \in Procs : Stall(p)

Fairness == \A p \in Procs : WF_pc(Step(p, {0}, {<<>>}))

SpecStall == Init /\ [][NextStall]_vars /\ Fairness

\* One invocation of a collector configured with or without a user and with
\* or without a password.
Users == {"", "elastic"}

Passwords == {"", "changeme"}

InitAuth == InitWith({MakeConfig(GoodURL, u, pw) : u \in Users, pw \in Passwords})

NextAuth == Step(1, {0}, {<<>>})

SpecAuth == InitAuth /\ [][NextAuth]_vars

\* One invocation against an upstream that may answer with any settings map
\* within the bounds.
InitReplica == InitWith({MakeConfig(GoodURL, "", "")})

NextReplica == Step(1, AllShards, AllDocs)

SpecReplica == InitReplica /\ [][NextReplica]_vars

\* ------------------------------------------------------- reading the trace
RelocationName == "trendyol_nosql_shard_relocation"

ReplicaName == "trendyol_nosql_shard_replica"

ScrapeErrorName == "trendyol_nosql_exporter_scrape_error"

ScrapeDurationName == "trendyol_nosql_exporter_scrape_duration_seconds"

\* The positions of the trace at which cycle p did something of a kind.
EventsOf(p, kind, what) ==
    {i \in DOMAIN trace :
        trace[i].cycle = p /\ trace[i].kind = kind /\ trace[i].what = what}

EmitsOf(p, name) == EventsOf(p, "emit", name)

Emitted(p, name) == EmitsOf(p, name) # {}

\* A fetch of cycle p returned with the outcome.
Returned(p, endpoint, outcome) ==
    \E i \in EventsOf(p, "ret", endpoint) : trace[i].arg[1] = outcome

HealthOk(p) == Returned(p, "health", "ok")

HealthFailed(p) == Returned(p, "health", "failed")

SettingsOk(p) == Returned(p, "settings", "ok")

SettingsFailed(p) == Returned(p, "settings", "failed")

\* The value and the label values of the one sample of a name cycle p sent.
ValueOf(p, name) == trace[CHOOSE i \in EmitsOf(p, name) : TRUE].arg[1]

LabelsOf(p, name) == trace[CHOOSE i \in EmitsOf(p, name) : TRUE].arg[2]

Completed(p) == pc[p] = "done"

\* The positions at which a cycle issued a request or sent a sample.
Outputs == {i \in DOMAIN trace : trace[i].kind \in {"req", "emit"}}

\* ------------------------------------------------------------------ claims
\* C1: concurrent invocations of Collect never interleave: between a cycle's
\* acquiring the lock and any sample it sends, no other cycle issues an
\* upstream request or sends a sample.
C1_NoInterleaving ==
    \A i \in DOMAIN trace : \A k \in DOMAIN trace :
        (/\ i < k
         /\ trace[i].kind = "lock"
         /\ trace[k].kind = "emit"
         /\ trace[k].cycle = trace[i].cycle)
        => \A j \in Outputs : (i < j /\ j < k) => trace[j].cycle = trace[i].cycle

\* Two invocations at once against a slow upstream: one is in its cycle, has
\* sent a sample and waits for the settings; the other waits for the lock.
C1_Witness ==
    \E p \in Procs : \E q \in Procs \ {p} :
        /\ mutex = p
        /\ pc[p] = "settingsWait"
        /\ Emitted(p, RelocationName)
        /\ pc[q] = "lock"

\* C2: in a completed cycle the scrape-error gauge is 1 iff at least one of
\* the two upstream calls failed, and 0 iff both succeeded.
C2_ScrapeErrorIffFailure ==
    \A p \in Procs :
        Completed(p) =>
            /\ Emitted(p, ScrapeErrorName)
            /\ ValueOf(p, ScrapeErrorName) = 1
                   <=> (HealthFailed(p) \/ SettingsFailed(p))
            /\ ValueOf(p, ScrapeErrorName) = 0
                   <=> (HealthOk(p) /\ SettingsOk(p))

\* A completed cycle whose health call failed and whose settings call
\* succeeded reports 1.
C2_Witness ==
    \E p \in Procs :
        /\ Completed(p)
        /\ HealthFailed(p)
        /\ SettingsOk(p)
        /\ ValueOf(p, ScrapeErrorName) = 1

\* C3: whatever the outcomes of the two upstream calls, a cycle sends the
\* scrape-error gauge exactly once and the scrape-duration gauge exactly
\* once.
C3_ErrorAndDurationOnce ==
    \A p \in Procs :
        /\ Cardinality(EmitsOf(p, ScrapeErrorName)) <= 1
        /\ Cardinality(EmitsOf(p, ScrapeDurationName)) <= 1
        /\ Completed(p) =>
               /\ Cardinality(EmitsOf(p, ScrapeErrorName)) = 1
               /\ Cardinality(EmitsOf(p, ScrapeDurationName)) = 1

\* One completed cycle in which both calls failed and one in which both
\* succeeded, each with its two gauges.
C3_Witness ==
    \E p \in Procs : \E q \in Procs \ {p} :
        /\ Completed(p) /\ HealthFailed(p) /\ SettingsFailed(p)
        /\ Completed(q) /\ HealthOk(q) /\ SettingsOk(q)
        /\ \A r \in {p, q} :
               /\ Cardinality(EmitsOf(r, ScrapeErrorName)) = 1
               /\ Cardinality(EmitsOf(r, ScrapeDurationName)) = 1

\* C4: the two upstream queries are independent: after a failed health
\* fetch the settings fetch is still made in the same cycle (and its request
\* sent, when a request can be built) and the replica sample is sent if it
\* succeeds; after a failed settings fetch the relocation sample of a
\* successful health fetch has been sent.
C4_QueriesIndependent ==
    \A p \in Procs :
        Completed(p) =>
            /\ HealthFailed(p) =>
                   /\ EventsOf(p, "call", "settings") # {}
                   /\ ~NewRequestFails(config.ESURL)
                          => EventsOf(p, "req", "/_settings") # {}
                   /\ SettingsOk(p) => Emitted(p, ReplicaName)
            /\ (SettingsFailed(p) /\ HealthOk(p)) => Emitted(p, RelocationName)

\* A completed cycle whose health fetch failed and whose replica sample was
\* sent all the same.
C4_Witness ==
    \E p \in Procs :
        /\ Completed(p)
        /\ HealthFailed(p)
        /\ EventsOf(p, "req", "/_settings") # {}
        /\ Emitted(p, ReplicaName)

\* C5: the relocation sample is sent if and only if the health fetch
\* succeeded, the replica sample if and only if the settings fetch succeeded:
\* nothing is sent for a fetch that failed.
C5_NothingOnFailure ==
    \A p \in Procs :
        /\ Emitted(p, RelocationName) => HealthOk(p)
        /\ Emitted(p, ReplicaName) => SettingsOk(p)
        /\ Completed(p) =>
               /\ HealthOk(p) => Emitted(p, RelocationName)
               /\ SettingsOk(p) => Emitted(p, ReplicaName)

\* A completed cycle whose settings fetch failed: no replica sample, and the
\* relocation sample of its successful health fetch.
C5_Witness ==
    \E p \in Procs :
        /\ Completed(p)
        /\ SettingsFailed(p)
        /\ ~Emitted(p, ReplicaName)
        /\ HealthOk(p)
        /\ Emitted(p, RelocationName)

\* The positions of Collect after the branch on the health fetch.
AfterHealth ==
    {"fetchSettings", "settingsWait", "settingsRet", "emitError", "emitDuration",
     "return"}

\* C6: for a successful health response exactly one relocation sample is
\* sent, labelled "inactive" when relocating_shards = 0 and "active" when it
\* is > 0; the label is always one of the two.
C6_RelocationLabel ==
    /\ \A p \in Procs :
           (pc[p] \in AfterHealth /\ health[p] # <<>>) =>
               /\ Cardinality(EmitsOf(p, RelocationName)) = 1
               /\ ValueOf(p, RelocationName) = 1
               /\ health[p][1] = 0 => LabelsOf(p, RelocationName) = <<"inactive">>
               /\ health[p][1] > 0 => LabelsOf(p, RelocationName) = <<"active">>
    /\ \A i \in DOMAIN trace :
           (trace[i].kind = "emit" /\ trace[i].what = RelocationName) =>
               trace[i].arg[2] \in {<<"active">>, <<"inactive">>}

\* A cycle with relocating_shards = MaxRelocating labelled active, after a
\* completed cycle labelled inactive.
C6_Witness ==
    \E p \in Procs : \E q \in Procs \ {p} :
        /\ pc[p] \in AfterHealth
        /\ health[p] = <<MaxRelocating>>
        /\ LabelsOf(p, RelocationName) = <<"active">>
        /\ Completed(q)
        /\ Emitted(q, RelocationName)
        /\ LabelsOf(q, RelocationName) = <<"inactive">>

\* The positions of Collect after the branch on the settings fetch.
AfterSettings == {"emitError", "emitDuration", "return"}

\* The largest element of a non-empty set of integers.
SetMax(S) == CHOOSE m \in S : \A x \in S : x <= m

\* The integers scanned from the number_of_replicas strings of a settings
\* map, an unparsable one counting as 0.
ParsedOf(doc) == {ScanReplicas(doc[i]) : i \in DOMAIN doc}

\* The settings map cycle p received.
DocOf(p) == resp[p][1].doc

\* C7 as stated: the replica label is the maximum, across all entries, of
\* parseInt(number_of_replicas), unparsable entries counting as 0, and "0"
\* for an empty map.
C7_LabelIsMaxOfEntries ==
    \A p \in Procs :
        (pc[p] \in AfterSettings /\ SettingsOk(p)) =>
            LabelsOf(p, ReplicaName) =
                <<Sprintf(IF DocOf(p) = <<>> THEN 0 ELSE SetMax(ParsedOf(DocOf(p))))>>

\* C7, amended: the replica label is the larger of 0 and the maximum, across
\* all entries, of the integer scanned from number_of_replicas (0 when none
\* is scanned); an empty map yields "0", and "abc" beside "2" yields "2".
C7_LabelIsMaxOfEntriesAndZero ==
    \A p \in Procs :
        (pc[p] \in AfterSettings /\ SettingsOk(p)) =>
            /\ Cardinality(EmitsOf(p, ReplicaName)) = 1
            /\ ValueOf(p, ReplicaName) = 1
            /\ LabelsOf(p, ReplicaName) =
                   <<Sprintf(SetMax({0} \cup ParsedOf(DocOf(p))))>>
            /\ DocOf(p) = <<>> => LabelsOf(p, ReplicaName) = <<<<"0">>>>
            /\ DocOf(p) = <<<<"a", "b", "c">>, <<"2">>>>
                   => LabelsOf(p, ReplicaName) = <<<<"2">>>>
            /\ DocOf(p) = <<<<"2">>, <<"1", "0">>>>
                   => LabelsOf(p, ReplicaName) = <<<<"1", "0">>>>

\* The settings map with "abc" beside "2" was received and the replica
\* sample labelled "2" was sent.
C7_Witness ==
    \E p \in Procs :
        /\ pc[p] \in AfterSettings
        /\ SettingsOk(p)
        /\ DocOf(p) = <<<<"a", "b", "c">>, <<"2">>>>
        /\ LabelsOf(p, ReplicaName) = <<<<"2">>>>

\* The place of a metric in the order of emission.
Rank(name) ==
    CASE name = RelocationName -> 1
      [] name = ReplicaName -> 2
      [] name = ScrapeErrorName -> 3
      [] name = ScrapeDurationName -> 4
      [] OTHER -> 0

\* The positions at which cycle p sent a sample.
SamplesOf(p) ==
    {i \in DOMAIN trace : trace[i].cycle = p /\ trace[i].kind = "emit"}

\* C8: the samples a cycle sends are a subsequence of relocation, replica,
\* scrape-error, scrape-duration: none is sent twice and the order is never
\* violated.
C8_EmissionOrder ==
    \A p \in Procs :
        /\ \A i \in SamplesOf(p) : Rank(trace[i].what) \in 1 .. 4
        /\ \A i \in SamplesOf(p) : \A j \in SamplesOf(p) :
               i < j => Rank(trace[i].what) < Rank(trace[j].what)

\* A completed cycle that sent all four samples, in the order.
C8_Witness ==
    \E p \in Procs :
        /\ Completed(p)
        /\ Cardinality(SamplesOf(p)) = 4
        /\ \E i \in EmitsOf(p, RelocationName) : \E j \in EmitsOf(p, ReplicaName) :
           \E k \in EmitsOf(p, ScrapeErrorName) : \E l \in EmitsOf(p, ScrapeDurationName) :
               i < j /\ j < k /\ k < l

\* The positions of Collect at which the invocation holds the mutex.
InCycle ==
    {"fetchHealth", "healthWait", "healthRet", "fetchSettings", "settingsWait",
     "settingsRet", "emitError", "emitDuration", "return", "panic"}

\* C9: the lock is released on every exit path (success, partial failure,
\* both fetches failed, panic): an invocation that has ended does not hold
\* it, so the mutex is free whenever no invocation is in its cycle.
C9_LockReleasedOnEveryExit ==
    /\ \A p \in Procs : pc[p] \in {"done", "panicked"} => mutex # p
    /\ mutex # 0 => pc[mutex] \in InCycle
    /\ (\A p \in Procs : pc[p] \notin InCycle) => mutex = 0

\* An invocation ended in a panic, and a later one acquired the lock.
C9_Witness ==
    \E p \in Procs : \E q \in Procs \ {p} :
        /\ pc[p] = "panicked"
        /\ \E i \in EventsOf(p, "unlock", "mutex") :
               /\ trace[i].arg[1] = "panic"
               /\ \E j \in EventsOf(q, "lock", "mutex") : i < j

\* The positions at which any cycle took or released the lock.
LockEvents == {i \in DOMAIN trace : trace[i].kind \in {"lock", "unlock"}}

\* C10: no cycle is skipped or coalesced: an invocation takes the lock only
\* after the cycle in flight has released it, and every invocation that has
\* returned ran a full cycle of its own: one lock, its two upstream calls,
\* its scrape-error and scrape-duration samples.
C10_EveryCallRunsItsCycle ==
    /\ \A i \in LockEvents : \A j \in LockEvents :
           (i < j /\ trace[i].kind = "lock" /\ trace[j].kind = "lock")
               => \E k \in LockEvents :
                      /\ i < k /\ k < j
                      /\ trace[k].kind = "unlock"
                      /\ trace[k].cycle = trace[i].cycle
    /\ \A p \in Procs :
           Completed(p) =>
               /\ Cardinality(EventsOf(p, "lock", "mutex")) = 1
               /\ Cardinality(EventsOf(p, "call", "health")) = 1
               /\ Cardinality(EventsOf(p, "call", "settings")) = 1
               /\ Cardinality(EventsOf(p, "ret", "health")) = 1
               /\ Cardinality(EventsOf(p, "ret", "settings")) = 1
               /\ Cardinality(EmitsOf(p, ScrapeErrorName)) = 1
               /\ Cardinality(EmitsOf(p, ScrapeDurationName)) = 1
    /\ (\A p \in Procs : Completed(p)) =>
           Cardinality({i \in LockEvents : trace[i].kind = "lock"}) = NumCalls

\* All NumCalls invocations have returned: NumCalls cycles, one after the
\* other, each with its scrape-duration sample.
C10_Witness ==
    /\ \A p \in Procs : Completed(p)
    /\ Cardinality({i \in LockEvents : trace[i].kind = "unlock"}) = NumCalls
    /\ \A p \in Procs : Emitted(p, ScrapeDurationName)

\* The four descriptors of the exporter, in the order of Describe.
FourDescriptors ==
    <<[fqName |-> RelocationName,
       help |-> "Elasticsearch shard relocation status",
       variableLabels |-> <<"status">>],
      [fqName |-> ReplicaName,
       help |-> "Elasticsearch shard replica count",
       variableLabels |-> <<"count">>],
      [fqName |-> ScrapeErrorName,
       help |-> "Scrape error status",
       variableLabels |-> <<>>],
      [fqName |-> ScrapeDurationName,
       help |-> "Duration of the scrape in seconds",
       variableLabels |-> <<>>]>>

\* C11: Describe never takes the collector lock and never contacts upstream:
\* whoever holds the lock, its next step can be taken, leaves the lock and the
\* upstream alone, and once it has returned it has delivered the four
\* descriptors.
C11_DescribeNeverWaits ==
    /\ dpc \in {"idle", "done"} =>
           ENABLED (DescribeCall /\ UNCHANGED <<mutex, trace>>)
    /\ dpc = "run" =>
           ENABLED ((DescribeSend \/ DescribeReturn) /\ UNCHANGED <<mutex, trace>>)
    /\ dpc = "done" => Len(dout) = 4

\* Describe ran to completion while a cycle held the lock, waiting for the
\* upstream, before any scrape had completed.
C11_Witness ==
    /\ dpc = "done"
    /\ Len(dout) = 4
    /\ \E p \in Procs : mutex = p /\ pc[p] = "healthWait"
    /\ \A p \in Procs : ~Completed(p)

\* The calls of a fetch, the requests to a path and the returns of a fetch
\* that cycle p has made so far.
Calls(p, endpoint) == Cardinality(EventsOf(p, "call", endpoint))

Requests(p, path) == Cardinality(EventsOf(p, "req", path))

Returns(p, endpoint) == Cardinality(EventsOf(p, "ret", endpoint))

\* Everything cycle p did for the index settings comes after the return of
\* its cluster-health fetch.
SettingsAfterHealth(p) ==
    \A j \in EventsOf(p, "call", "settings") \cup EventsOf(p, "req", "/_settings") :
        \E i \in EventsOf(p, "ret", "health") : i < j

\* C12, as stated: within one cycle each upstream endpoint is requested
\* exactly once and never retried, and the index-settings request is issued
\* only after the cluster-health call has returned.
C12_RequestedExactlyOnce ==
    \A p \in Procs :
        /\ Requests(p, "/_cluster/health") <= 1
        /\ Requests(p, "/_settings") <= 1
        /\ SettingsAfterHealth(p)
        /\ Completed(p) =>
               /\ Requests(p, "/_cluster/health") = 1
               /\ Requests(p, "/_settings") = 1

\* C12, amended: within one cycle each upstream fetch is attempted exactly
\* once and never retried, and it sends exactly one request to its endpoint,
\* or none when the request cannot be built from the configured URL; a fetch
\* returns once, and the index-settings fetch starts only after the
\* cluster-health fetch has returned.
C12_AttemptedExactlyOnce ==
    \A p \in Procs :
        /\ Calls(p, "health") <= 1 /\ Calls(p, "settings") <= 1
        /\ Returns(p, "health") <= 1 /\ Returns(p, "settings") <= 1
        /\ Requests(p, "/_cluster/health") <= Calls(p, "health")
        /\ Requests(p, "/_settings") <= Calls(p, "settings")
        /\ SettingsAfterHealth(p)
        /\ Completed(p) =>
               /\ Calls(p, "health") = 1 /\ Calls(p, "settings") = 1
               /\ Returns(p, "health") = 1 /\ Returns(p, "settings") = 1
               /\ Requests(p, "/_cluster/health") =
                      (IF NewRequestFails(config.ESURL) THEN 0 ELSE 1)
               /\ Requests(p, "/_settings") =
                      (IF NewRequestFails(config.ESURL) THEN 0 ELSE 1)

\* A cycle whose cluster-health fetch failed after its request has completed
\* with one request to each endpoint.
C12_Witness ==
    \E p \in Procs :
        /\ Completed(p)
        /\ HealthFailed(p)
        /\ Requests(p, "/_cluster/health") = 1
        /\ Requests(p, "/_settings") = 1

\* The latest response of cycle p came with status 200 and a body that
\* decodes.
Decodable200(p) ==
    /\ resp[p] # <<>>
    /\ ~resp[p][1].failed
    /\ resp[p][1].status = 200
    /\ resp[p][1].json

\* An entry of the settings map that is no integer at all.
NotAnInteger(s) == s = <<>> \/ \A i \in DOMAIN s : s[i] \notin DigitChars

\* C13: a replica-count string that is not a valid integer never surfaces as
\* a scrape error: when both upstream calls returned HTTP 200 with decodable
\* bodies, the replica sample is emitted and the scrape-error gauge is 0,
\* whatever the number_of_replicas strings of the settings map are.
C13_BadEntryIsNoScrapeError ==
    \A p \in Procs :
        /\ (pc[p] \in {"emitError", "emitDuration", "return"}
                /\ HealthOk(p) /\ Decodable200(p))
            => Emitted(p, ReplicaName)
        /\ (pc[p] \in {"emitDuration", "return"}
                /\ HealthOk(p) /\ Decodable200(p))
            => ValueOf(p, ScrapeErrorName) = 0

\* Both calls returned 200 with decodable bodies, every entry of the settings
\* map is no integer at all, and the cycle has sent the replica sample and
\* scrape-error 0.
C13_Witness ==
    \E p \in Procs :
        /\ pc[p] = "return"
        /\ HealthOk(p) /\ Decodable200(p)
        /\ DocOf(p) # <<>>
        /\ \A i \in DOMAIN DocOf(p) : NotAnInteger(DocOf(p)[i])
        /\ Emitted(p, ReplicaName)
        /\ ValueOf(p, ScrapeErrorName) = 0

\* The names of the samples cycle p has sent.
NamesOf(p) == {trace[i].what : i \in {j \in DOMAIN trace :
                                          trace[j].cycle = p /\ trace[j].kind = "emit"}}

\* C14: every scrape is an independent snapshot.  Whatever the other cycles
\* did before, the relocation, replica and scrape-error samples of a cycle
\* are those of its own two upstream outcomes, and two cycles whose calls
\* succeeded and failed alike have sent the same samples with the same
\* scrape-error value.
C14_IndependentSnapshot ==
    /\ \A p \in Procs :
           pc[p] = "return" =>
               /\ Emitted(p, RelocationName) <=> HealthOk(p)
               /\ HealthOk(p) =>
                      LabelsOf(p, RelocationName) =
                          <<IF health[p][1] > 0
                            THEN "active" ELSE "inactive">>
               /\ Emitted(p, ReplicaName) <=> SettingsOk(p)
               /\ SettingsOk(p) =>
                      LabelsOf(p, ReplicaName) =
                          <<Sprintf(SetMax(ParsedOf(DocOf(p)) \cup {0}))>>
               /\ ValueOf(p, ScrapeErrorName) =
                      (IF HealthOk(p) /\ SettingsOk(p) THEN 0 ELSE 1)
    /\ \A p \in Procs : \A q \in Procs :
           (/\ pc[p] \in {"return", "done"}
            /\ pc[q] \in {"return", "done"}
            /\ HealthOk(p) <=> HealthOk(q)
            /\ SettingsOk(p) <=> SettingsOk(q))
           => /\ NamesOf(p) = NamesOf(q)
              /\ ValueOf(p, ScrapeErrorName) = ValueOf(q, ScrapeErrorName)

\* A cycle both of whose calls succeeded reports scrape-error 0 after an
\* earlier cycle, one of whose calls failed, reported 1.
C14_Witness ==
    \E p \in Procs : \E q \in Procs \ {p} :
        /\ Completed(q)
        /\ HealthFailed(q)
        /\ ValueOf(q, ScrapeErrorName) = 1
        /\ pc[p] = "return"
        /\ HealthOk(p) /\ SettingsOk(p)
        /\ ValueOf(p, ScrapeErrorName) = 0

\* C15: an upstream fetch succeeds only if the request was sent, the
\* response status is exactly 200 and the body decodes; a send failure, any
\* other status (also with a body that decodes) and an undecodable body each
\* make the fetch fail, and Collect turns a failed fetch into an absent
\* sub-metric plus scrape-error 1.
C15_FetchSucceedsOnlyOn200 ==
    \A p \in Procs :
        /\ pc[p] \in {"healthRet", "settingsRet"} =>
               /\ err[p] = "" <=> Decodable200(p)
               /\ resp[p] = <<>> => err[p] # ""
               /\ (resp[p] # <<>> /\ resp[p][1].failed) => err[p] # ""
               /\ (resp[p] # <<>> /\ ~resp[p][1].failed /\ resp[p][1].status # 200)
                      => err[p] # ""
               /\ (resp[p] # <<>> /\ ~resp[p][1].failed /\ ~resp[p][1].json)
                      => err[p] # ""
               /\ (pc[p] = "healthRet" /\ err[p] # "") => HealthFailed(p)
               /\ (pc[p] = "settingsRet" /\ err[p] # "") => SettingsFailed(p)
        /\ pc[p] = "return" =>
               /\ HealthFailed(p) =>
                      /\ ~Emitted(p, RelocationName)
                      /\ ValueOf(p, ScrapeErrorName) = 1
               /\ SettingsFailed(p) =>
                      /\ ~Emitted(p, ReplicaName)
                      /\ ValueOf(p, ScrapeErrorName) = 1

\* The settings fetch has failed on a response with status 500 and a body
\* that decodes, after a health fetch that succeeded.
C15_Witness ==
    \E p \in Procs :
        /\ pc[p] = "settingsRet"
        /\ HealthOk(p)
        /\ resp[p] # <<>>
        /\ ~resp[p][1].failed /\ resp[p][1].status = 500 /\ resp[p][1].json
        /\ err[p] # ""

\* C16: the four descriptors are built once, when the collector is
\* constructed, and no step of Collect or Describe changes them or the
\* configuration: Describe sends the same four descriptors, in the same
\* order, before, during and after any scrape cycles.
C16_DescriptorsImmutable ==
    /\ [](/\ Len(dout) <= 4
          /\ dout = SubSeq(FourDescriptors, 1, Len(dout))
          /\ dpc = "done" => dout = FourDescriptors)
    /\ [][descs' = descs /\ config' = config]_vars

\* Describe has delivered the four descriptors after every invocation of
\* Collect has completed its cycle, one of them with a replica sample.
C16_Witness ==
    /\ dpc = "done"
    /\ dout = FourDescriptors
    /\ \A p \in Procs : Completed(p)
    /\ \E p \in Procs : Emitted(p, ReplicaName)

\* The requests sent so far.
Reqs == {i \in DOMAIN trace : trace[i].kind = "req"}

\* C17: a request carries basic-auth credentials only if both the configured
\* user and the configured password are non-empty, and then it carries these
\* two; when either is empty the request is sent without credentials; the
\* health and the settings request of a cycle carry the same.
C17_BasicAuthOnlyWithBoth ==
    /\ \A i \in Reqs :
           /\ (config.ESUser = "" \/ config.ESPass = "") => trace[i].arg[1] = <<>>
           /\ (config.ESUser # "" /\ config.ESPass # "")
                  => trace[i].arg[1] = <<config.ESUser, config.ESPass>>
    /\ \A i \in Reqs : \A j \in Reqs : trace[i].arg[1] = trace[j].arg[1]

\* A user with an empty password: both requests have been sent, neither with
\* credentials.
C17_Witness ==
    /\ config.ESUser # ""
    /\ config.ESPass = ""
    /\ \E i \in EventsOf(1, "req", "/_cluster/health") : trace[i].arg[1] = <<>>
    /\ \E i \in EventsOf(1, "req", "/_settings") : trace[i].arg[1] = <<>>

\* The consumer of some invocation has stopped receiving.
Stalled == \E p \in Procs : chan[p] = "stalled"

\* C18: once a scrape starts it runs to completion.  While every upstream
\* call returns and every consumer keeps receiving, every invocation of
\* Collect, one waiting behind other cycles included, sends its
\* scrape-duration sample and releases the lock in the end; a consumer that
\* has stopped receiving leaves its cycle holding the lock for good, and no
\* invocation waiting for the lock gets it.
C18_RunsToCompletion ==
    /\ \A p \in Procs :
           ([]~Stalled) =>
               ((pc[p] = "lock") ~>
                    (/\ pc[p] = "done"
                     /\ Emitted(p, ScrapeDurationName)
                     /\ mutex # p))
    /\ [](\A p \in Procs : chan[p] = "stalled" => mutex = p)
    /\ [][\A p \in Procs :
              chan[p] = "stalled" =>
                  /\ chan'[p] = "stalled"
                  /\ mutex' = p
                  /\ ~Emitted(p, ScrapeDurationName)'
                  /\ \A q \in Procs : pc[q] = "lock" => pc'[q] = "lock"]_vars

\* An invocation waits for the lock behind a cycle that is at its scrape-error
\* send with a consumer that has stopped receiving.
C18_Witness ==
    \E p \in Procs : \E q \in Procs \ {p} :
        /\ mutex = p
        /\ chan[p] = "stalled"
        /\ pc[p] = "emitError"
        /\ pc[q] = "lock"

\* The replica label cycle p has sent.
ReplicaLabel(p) == LabelsOf(p, ReplicaName)[1]

\* The entry is a negative integer: a minus sign and digits, nothing else.
NegativeInteger(s) ==
    /\ Len(s) >= 2
    /\ s[1] = "-"
    /\ \A i \in 2 .. Len(s) : s[i] \in DigitChars

\* C19: the emitted replica count is never negative; a settings map whose
\* entries are all negative integers yields the label "0", not the maximum
\* of the entries.
C19_ReplicaNeverNegative ==
    \A p \in Procs :
        (pc[p] \in AfterSettings /\ SettingsOk(p)) =>
            /\ replicas[p] >= 0
            /\ Head(ReplicaLabel(p)) # "-"
            /\ (/\ DocOf(p) # <<>>
                /\ \A i \in DOMAIN DocOf(p) : NegativeInteger(DocOf(p)[i]))
               => ReplicaLabel(p) = <<"0">>

\* The settings map holds "-1" and "-3", and the cycle has sent the label
\* "0".
C19_Witness ==
    \E p \in Procs :
        /\ pc[p] = "return"
        /\ SettingsOk(p)
        /\ DocOf(p) = <<<<"-", "1">>, <<"-", "3">>>>
        /\ ReplicaLabel(p) = <<"0">>

\* The longest prefix of s that is made of digits.
DigitPrefix(s) ==
    LET n == CHOOSE k \in 0 .. Len(s) :
                 /\ \A i \in 1 .. k : s[i] \in DigitChars
                 /\ k < Len(s) => s[k + 1] \notin DigitChars
    IN  SubSeq(s, 1, n)

\* What is left of s without its leading blanks and one sign holds no
\* leading digit.
NoLeadingInteger(s) ==
    LET t == SkipSpace(s)
        u == IF t # <<>> /\ t[1] \in {"+", "-"} THEN Tail(t) ELSE t
    IN  u = <<>> \/ u[1] \notin DigitChars

\* C20: every number_of_replicas string is scanned for a leading decimal
\* integer and the scan's error is ignored.  Alone in the map, a string that
\* starts with digits yields these digits, whatever follows them ("3x"
\* yields "3"), and a string with no leading integer yields "0"; only a
\* string with no leading integer, or whose integer is not positive, yields
\* "0"; next to "2", "3x" is the maximum.
C20_LeadingIntegerCounts ==
    \A p \in Procs :
        (pc[p] \in AfterSettings /\ SettingsOk(p)) =>
            /\ Len(DocOf(p)) = 1 =>
                   LET s == DocOf(p)[1]
                   IN  /\ (s # <<>> /\ s[1] \in DigitChars)
                              => ReplicaLabel(p) = DigitPrefix(s)
                       /\ s = <<"3", "x">> => ReplicaLabel(p) = <<"3">>
                       /\ NoLeadingInteger(s) => ReplicaLabel(p) = <<"0">>
                       /\ ReplicaLabel(p) = <<"0">>
                              => \/ NoLeadingInteger(s)
                                 \/ s[1] \in {"0", "-"}
            /\ (\E i \in DOMAIN DocOf(p) : DocOf(p)[i] = <<"3", "x">>)
                   => ReplicaLabel(p) \notin {<<"0">>, <<"1">>, <<"2">>}
            /\ DocOf(p) \in {<<<<"3", "x">>, <<"2">>>>, <<<<"2">>, <<"3", "x">>>>}
                   => ReplicaLabel(p) = <<"3">>

\* The settings map holds "3x" and "2", and the cycle has sent the label
\* "3".
C20_Witness ==
    \E p \in Procs :
        /\ pc[p] = "return"
        /\ SettingsOk(p)
        /\ DocOf(p) = <<<<"3", "x">>, <<"2">>>>
        /\ ReplicaLabel(p) = <<"3">>

====
